---- MODULE Spec2Model ----
(***************************************************************************)
(* Logistics dispatch backend: the dispatcher panel API (admin_backend)    *)
(* and the dispatcher API (driver_backend), two FastAPI services over one  *)
(* shared database (users, drivers, shipments, messages).                  *)
(*                                                                         *)
(* Every route handler is an `async def` with no await in its body, so     *)
(* inside one service process a handler runs from its first query to its   *)
(* commit without interleaving: each route is one action of Spec.  The two *)
(* services are separate processes on the same database, so a handler of   *)
(* one can interleave with a handler of the other between its queries and  *)
(* its commit: SpecRace splits assign_driver into those two steps.         *)
(* SpecAuth runs the login routes against the clock, and SpecLedger the    *)
(* messaging routes with every request body.                               *)
(***************************************************************************)
EXTENDS Integers, Sequences, FiniteSets, TLC

\* ------------------------------------------------------------------ bounds
\* Most rows the message ledger may hold.
MaxMessages == 2
\* Last tick of the clock (datetime.utcnow()).
MaxTime == 3

\* ----------------------------------------------------------- value domains
\* Python's None: a nullable column, an Optional argument, a failed .first().
NULL == 0

UserIds == {1, 2, 3, 4}
DriverIds == {1, 2}
ShipmentIds == {1, 2}
\* An id that matches no row of any table.
UnknownIds == {9}

\* backend.shared.models.ShipmentStatus: the states the design document
\* observes (it leaves open whether a CANCELLED member exists).
ShipmentStatus == {"PENDING", "ASSIGNED", "IN_TRANSIT", "DELIVERED"}
\* backend.shared.utils: the stored hash of a password, and its check.
HashPassword(password) == <<"hash", password>>
verify_password(password, password_hash) == HashPassword(password) = password_hash

\* The rows of the users table: two dispatchers, a driver and a customer.
UserRows ==
    (1 :> [email |-> "ann@hq", password_hash |-> HashPassword("pw-ann"),
           full_name |-> "Ann", role |-> "dispatcher", updated_at |-> 0]) @@
    (2 :> [email |-> "bob@hq", password_hash |-> HashPassword("pw-bob"),
           full_name |-> "Bob", role |-> "dispatcher", updated_at |-> 0]) @@
    (3 :> [email |-> "dan@road", password_hash |-> HashPassword("pw-dan"),
           full_name |-> "Dan", role |-> "driver", updated_at |-> 0]) @@
    (4 :> [email |-> "cy@shop", password_hash |-> HashPassword("pw-cy"),
           full_name |-> "Cy", role |-> "customer", updated_at |-> 0])

DriverRows ==
    (1 :> [full_name |-> "Dan", license_number |-> "L-1", user_id |-> 3]) @@
    (2 :> [full_name |-> "Eve", license_number |-> "L-2", user_id |-> NULL])

\* Intake (out of scope) leaves every shipment PENDING with no driver.
ShipmentRows ==
    (1 :> [shipment_number |-> "SHP-001", customer_id |-> 4,
           driver_id |-> NULL, status |-> "PENDING"]) @@
    (2 :> [shipment_number |-> "SHP-002", customer_id |-> NULL,
           driver_id |-> NULL, status |-> "PENDING"])

\* Request inputs.
\* The bodies of POST /api/dispatcher/login: each dispatcher's own password,
\* a wrong password for an existing email, a driver's own password, and an
\* email no user has (with a wrong and with another user's password).
LoginRequests ==
    { [email |-> "ann@hq", password |-> "pw-ann"],
      [email |-> "bob@hq", password |-> "pw-bob"],
      [email |-> "ann@hq", password |-> "wrong"],
      [email |-> "dan@road", password |-> "pw-dan"],
      [email |-> "dan@road", password |-> "wrong"],
      [email |-> "cy@shop", password |-> "pw-ann"],
      [email |-> "zed@nowhere", password |-> "wrong"],
      [email |-> "zed@nowhere", password |-> "pw-ann"] }
\* A bearer token as create_access_token builds it: the claims sub and role.
\* One per dispatcher, one of a driver, one of a customer (the system's other
\* login surfaces issue those), and one whose subject matches no user.
Tokens ==
    {[sub |-> UserRows[u].email, role |-> UserRows[u].role] : u \in UserIds}
        \cup {[sub |-> "zed@nowhere", role |-> "dispatcher"]}
\* The bodies of POST /api/dispatcher/messages/send (MessageCreate): to a
\* customer about a shipment, to a driver about none, to nobody.
LedgerPayloads ==
    { [recipient_id |-> 4, message |-> "Delayed", shipment_id |-> 1,
       message_type |-> "to_customer"],
      [recipient_id |-> 3, message |-> "Pickup moved", shipment_id |-> NULL,
       message_type |-> "to_driver"],
      [recipient_id |-> 9, message |-> "Delayed", shipment_id |-> 1,
       message_type |-> "to_customer"] }
\* The bodies Spec sends: the first and the last of them.
MessagePayloads == {p \in LedgerPayloads : p.message = "Delayed"}

\* ------------------------------------------------------------------- state
VARIABLES
    users,      \* users table: id -> row
    drivers,    \* drivers table: id -> row
    shipments,  \* shipments table: id -> row
    messages,   \* messages table: the sequence of rows, in id order
    now,        \* the clock, datetime.utcnow()
    resp,       \* the response of the last request
    sentCount,  \* history: successful sends per principal
    sess,       \* SpecRace: each service's request in flight
    commits     \* SpecRace history: the commits, in order

vars == <<users, drivers, shipments, messages, now, resp, sentCount, sess, commits>>
storage == <<users, drivers, shipments, messages>>

\* A response: the route, the HTTP status, the error detail or the body's
\* message, and the ids and status the body carries.
Response(op, code, detail, id, driver, status) ==
    [op |-> op, code |-> code, detail |-> detail, id |-> id,
     driver |-> driver, status |-> status]
HTTPException(op, status_code, detail) ==
    Response(op, status_code, detail, NULL, NULL, "")

\* ---------------------------------------------------------- identity guard
\* backend.shared.utils.get_current_user: the user the token's subject names,
\* or 401.
get_current_user(token) ==
    LET found == {u \in DOMAIN users : users[u].email = token.sub}
    IN  IF found = {} THEN NULL ELSE CHOOSE u \in found : TRUE

\* A dependency that resolves the token and skips the role check.
get_current_dispatcher_NoRoleCheck(token) ==
    LET user == get_current_user(token)
    IN  IF user = NULL
        THEN [code |-> 401, detail |-> "Could not validate credentials", user |-> NULL]
        ELSE [code |-> 200, detail |-> "", user |-> user]

\* The dependency of every admin route: the token's user, re-checked to be a
\* dispatcher.  [code, detail, user].
get_current_dispatcher(token) ==
    LET user == get_current_user(token)
    IN  IF user = NULL
        THEN [code |-> 401, detail |-> "Could not validate credentials", user |-> NULL]
        ELSE IF users[user].role # "dispatcher"
        THEN [code |-> 403, detail |-> "Dispatcher access required", user |-> NULL]
        ELSE [code |-> 200, detail |-> "", user |-> user]

\* ------------------------------------------------- assignment & status engine
\* A commit that writes every column of the row as the session holds it.
Flush_WholeRow(stored, loaded, current) == current

\* db.commit(): the unit of work writes the columns of a loaded row whose
\* value differs from the value loaded (an attribute set to the value it was
\* loaded with is no net change and is left out of the UPDATE).
Flush(stored, loaded, current) ==
    [c \in DOMAIN stored |->
        IF current[c] # loaded[c] THEN current[c] ELSE stored[c]]

\* A handler that links the driver and forgets the status.
AssignAttributes_DriverOnly(loaded, driver_id) ==
    [loaded EXCEPT !.driver_id = driver_id]

\* shipment.driver_id = driver.id; shipment.status = ShipmentStatus.ASSIGNED:
\* the attributes the handler sets on the loaded row.
AssignAttributes(loaded, driver_id) ==
    [loaded EXCEPT !.driver_id = driver_id, !.status = "ASSIGNED"]

\* An assign_driver that never looks the driver up.
ShipmentService_assign_driver_NoDriverCheck(db, shipment_id, driver_id) ==
    IF shipment_id \notin DOMAIN db
    THEN [resp |-> HTTPException("assign_driver", 404, "Shipment not found"),
          shipments |-> db]
    ELSE [resp |-> Response("assign_driver", 200, "Driver assigned",
                            shipment_id, driver_id, "ASSIGNED"),
          shipments |->
            [db EXCEPT ![shipment_id] = Flush(@, @, AssignAttributes(@, driver_id))]]

\* ShipmentService.assign_driver on the shipments table db: [resp, shipments].
ShipmentService_assign_driver(db, shipment_id, driver_id) ==
    LET shipment == IF shipment_id \in DOMAIN db THEN shipment_id ELSE NULL
        driver == IF driver_id \in DOMAIN drivers THEN driver_id ELSE NULL
    IN  IF shipment = NULL
        THEN [resp |-> HTTPException("assign_driver", 404, "Shipment not found"),
              shipments |-> db]
        ELSE IF driver = NULL
        THEN [resp |-> HTTPException("assign_driver", 404, "Driver not found"),
              shipments |-> db]
        ELSE [resp |-> Response("assign_driver", 200, "Driver assigned",
                                shipment, driver, "ASSIGNED"),
              shipments |->
                [db EXCEPT ![shipment] = Flush(@, @, AssignAttributes(@, driver))]]

\* An update_status that treats DELIVERED as terminal.
ShipmentService_update_status_Terminal(db, shipment_id, new_status) ==
    IF shipment_id \notin DOMAIN db
    THEN [resp |-> HTTPException("update_status", 404, "Shipment not found"),
          shipments |-> db]
    ELSE IF db[shipment_id].status = "DELIVERED"
    THEN [resp |-> HTTPException("update_status", 409, "Shipment already delivered"),
          shipments |-> db]
    ELSE [resp |-> Response("update_status", 200, "Status updated",
                            shipment_id, NULL, new_status),
          shipments |-> [db EXCEPT ![shipment_id].status = new_status]]

\* ShipmentService.update_status on the shipments table db: [resp, shipments].
ShipmentService_update_status(db, shipment_id, new_status) ==
    LET shipment == IF shipment_id \in DOMAIN db THEN shipment_id ELSE NULL
    IN  IF shipment = NULL
        THEN [resp |-> HTTPException("update_status", 404, "Shipment not found"),
              shipments |-> db]
        ELSE [resp |-> Response("update_status", 200, "Status updated",
                                shipment, NULL, new_status),
              shipments |->
                [db EXCEPT ![shipment] = Flush(@, @, [@ EXCEPT !.status = new_status])]]

\* POST /api/dispatcher/shipments/{shipment_id}/assign of the admin service.
admin_assign_driver(token, shipment_id, driver_id) ==
    LET current == get_current_dispatcher(token)
        r == ShipmentService_assign_driver(shipments, shipment_id, driver_id)
    IN  /\ IF current.code # 200
           THEN /\ resp' = HTTPException("assign_driver", current.code, current.detail)
                /\ UNCHANGED shipments
           ELSE /\ resp' = r.resp
                /\ shipments' = r.shipments
        /\ UNCHANGED <<users, drivers, messages, now, sentCount, sess, commits>>

\* POST /api/dispatcher/shipments/{shipment_id}/status of the admin service.
admin_update_status(token, shipment_id, status) ==
    LET current == get_current_dispatcher(token)
        r == ShipmentService_update_status(shipments, shipment_id, status)
    IN  /\ IF current.code # 200
           THEN /\ resp' = HTTPException("update_status", current.code, current.detail)
                /\ UNCHANGED shipments
           ELSE /\ resp' = r.resp
                /\ shipments' = r.shipments
        /\ UNCHANGED <<users, drivers, messages, now, sentCount, sess, commits>>

\* An assign_driver that looks the driver up before it checks the shipment.
DriverService_assign_driver_DriverFirst(db, shipment_id, driver_id) ==
    IF driver_id \notin DOMAIN drivers
    THEN [resp |-> HTTPException("assign_driver", 404, "Driver not found"),
          shipments |-> db]
    ELSE IF shipment_id \notin DOMAIN db
    THEN [resp |-> HTTPException("assign_driver", 404, "Shipment not found"),
          shipments |-> db]
    ELSE [resp |-> Response("assign_driver", 200, "Driver assigned successfully",
                            shipment_id, driver_id, "ASSIGNED"),
          shipments |->
            [db EXCEPT ![shipment_id] = Flush(@, @, AssignAttributes(@, driver_id))]]

\* The body of the driver service's assign_driver on the shipments table db:
\* [resp, shipments].  The response's status is read back from the refreshed
\* row.
DriverService_assign_driver(db, shipment_id, driver_id) ==
    LET after == [db EXCEPT ![shipment_id] =
                    Flush(@, @, AssignAttributes(@, driver_id))]
    IN  IF shipment_id \notin DOMAIN db
        THEN [resp |-> HTTPException("assign_driver", 404, "Shipment not found"),
              shipments |-> db]
        ELSE IF driver_id \notin DOMAIN drivers
        THEN [resp |-> HTTPException("assign_driver", 404, "Driver not found"),
              shipments |-> db]
        ELSE [resp |-> Response("assign_driver", 200, "Driver assigned successfully",
                                shipment_id, driver_id, after[shipment_id].status),
              shipments |-> after]

\* The body of the driver service's update_shipment_status: [resp, shipments].
DriverService_update_shipment_status(db, shipment_id, status) ==
    LET after == [db EXCEPT ![shipment_id] =
                    Flush(@, @, [@ EXCEPT !.status = status])]
    IN  IF shipment_id \notin DOMAIN db
        THEN [resp |-> HTTPException("update_status", 404, "Shipment not found"),
              shipments |-> db]
        ELSE [resp |-> Response("update_status", 200,
                                "Shipment status updated successfully",
                                shipment_id, NULL, after[shipment_id].status),
              shipments |-> after]

\* POST /api/dispatcher/shipments/{shipment_id}/assign of the driver service.
\* The handler has no token parameter and no dependency but get_db: whatever
\* Authorization header a request carries is never read.
driver_assign_driver(shipment_id, driver_id) ==
    LET r == DriverService_assign_driver(shipments, shipment_id, driver_id)
    IN  /\ resp' = r.resp
        /\ shipments' = r.shipments
        /\ UNCHANGED <<users, drivers, messages, now, sentCount, sess, commits>>

\* POST /api/dispatcher/shipments/{shipment_id}/status of the driver service.
driver_update_shipment_status(shipment_id, status) ==
    LET r == DriverService_update_shipment_status(shipments, shipment_id, status)
    IN  /\ resp' = r.resp
        /\ shipments' = r.shipments
        /\ UNCHANGED <<users, drivers, messages, now, sentCount, sess, commits>>

\* ------------------------------------------------------------ read routes
\* ShipmentService.list_shipments: the rows, filtered when a status is given
\* ("" is no filter).
ShipmentService_list_shipments(status) ==
    {s \in DOMAIN shipments : status = "" \/ shipments[s].status = status}

\* GET /api/dispatcher/shipments of the admin service.
admin_list_shipments(token, status) ==
    LET current == get_current_dispatcher(token)
    IN  /\ resp' = IF current.code # 200
                   THEN HTTPException("list_shipments", current.code, current.detail)
                   ELSE Response("list_shipments", 200, "", 
                                 Cardinality(ShipmentService_list_shipments(status)),
                                 NULL, "")
        /\ UNCHANGED <<users, drivers, shipments, messages, now, sentCount, sess, commits>>

\* ShipmentService.get_shipment_detail, as a response.
ShipmentService_get_shipment_detail(shipment_id) ==
    IF shipment_id \notin DOMAIN shipments
    THEN HTTPException("shipment_detail", 404, "Shipment not found")
    ELSE Response("shipment_detail", 200, shipments[shipment_id].shipment_number,
                  shipment_id, shipments[shipment_id].driver_id,
                  shipments[shipment_id].status)

\* GET /api/dispatcher/shipments/{shipment_id} of the admin service.
admin_shipment_detail(token, shipment_id) ==
    LET current == get_current_dispatcher(token)
    IN  /\ resp' = IF current.code # 200
                   THEN HTTPException("shipment_detail", current.code, current.detail)
                   ELSE ShipmentService_get_shipment_detail(shipment_id)
        /\ UNCHANGED <<users, drivers, shipments, messages, now, sentCount, sess, commits>>

\* GET /api/dispatcher/drivers of the admin service.
admin_list_drivers(token) ==
    LET current == get_current_dispatcher(token)
    IN  /\ resp' = IF current.code # 200
                   THEN HTTPException("list_drivers", current.code, current.detail)
                   ELSE Response("list_drivers", 200, "", Cardinality(DOMAIN drivers),
                                 NULL, "")
        /\ UNCHANGED <<users, drivers, shipments, messages, now, sentCount, sess, commits>>

\* GET /api/dispatcher/shipments of the driver service.
driver_get_all_shipments ==
    /\ resp' = Response("list_shipments", 200, "", Cardinality(DOMAIN shipments),
                        NULL, "")
    /\ UNCHANGED <<users, drivers, shipments, messages, now, sentCount, sess, commits>>

\* GET /api/dispatcher/shipments/{shipment_id} of the driver service.
driver_get_shipment_detail(shipment_id) ==
    /\ resp' = IF shipment_id \notin DOMAIN shipments
               THEN HTTPException("shipment_detail", 404, "Shipment not found")
               ELSE Response("shipment_detail", 200,
                             shipments[shipment_id].shipment_number, shipment_id,
                             shipments[shipment_id].driver_id,
                             shipments[shipment_id].status)
    /\ UNCHANGED <<users, drivers, shipments, messages, now, sentCount, sess, commits>>

\* GET /api/dispatcher/drivers of the driver service.
driver_list_drivers ==
    /\ resp' = Response("list_drivers", 200, "", Cardinality(DOMAIN drivers), NULL, "")
    /\ UNCHANGED <<users, drivers, shipments, messages, now, sentCount, sess, commits>>

\* ------------------------------------------------------ messaging ledger
\* line 335: the payload's literal to the MessageType member.
MessageTypeOf(message_type) ==
    IF message_type = "to_customer" THEN "TO_CUSTOMER" ELSE "TO_DRIVER"

\* Message(...): the row db.add / db.commit / db.refresh leaves in the table.
NewMessage(sender, recipient_id, message, shipment_id, message_type) ==
    [id |-> Len(messages) + 1, sender_id |-> sender, recipient_id |-> recipient_id,
     shipment_id |-> shipment_id, content |-> message, message_type |-> message_type,
     created_at |-> now, is_read |-> FALSE]

\* A send_message that keeps only the newest row.
NotificationService_send_message_Replace(sender, recipient_id, message, shipment_id, message_type) ==
    IF recipient_id \notin DOMAIN users
    THEN [resp |-> HTTPException("send_message", 404, "Recipient not found"),
          messages |-> messages]
    ELSE [resp |-> Response("send_message", 200, users[recipient_id].role,
                            1, NULL, ""),
          messages |->
            <<[id |-> 1, sender_id |-> sender, recipient_id |-> recipient_id,
               shipment_id |-> shipment_id, content |-> message,
               message_type |-> message_type, created_at |-> now,
               is_read |-> FALSE]>>]

\* NotificationService.send_message: [resp, messages].
NotificationService_send_message(sender, recipient_id, message, shipment_id, message_type) ==
    LET recipient == IF recipient_id \in DOMAIN users THEN recipient_id ELSE NULL
        new_msg == NewMessage(sender, recipient_id, message, shipment_id, message_type)
    IN  IF recipient = NULL
        THEN [resp |-> HTTPException("send_message", 404, "Recipient not found"),
              messages |-> messages]
        ELSE [resp |-> Response("send_message", 200, users[recipient].role,
                                new_msg.id, NULL, ""),
              messages |-> Append(messages, new_msg)]

\* NotificationService.get_sent_messages: the rows the dispatcher sent.
NotificationService_get_sent_messages(dispatcher) ==
    LET Mine(m) == m.sender_id = dispatcher
        rows == SelectSeq(messages, Mine)
    IN  [i \in 1..Len(rows) |->
            [id |-> rows[i].id, content |-> rows[i].content,
             to |-> users[rows[i].recipient_id].full_name,
             to_role |-> users[rows[i].recipient_id].role,
             shipment_number |->
                IF rows[i].shipment_id \in DOMAIN shipments
                THEN shipments[rows[i].shipment_id].shipment_number ELSE "",
             sent_at |-> rows[i].created_at, is_read |-> rows[i].is_read]]

\* POST /api/dispatcher/messages/send.  The ledger is capped at MaxMessages.
admin_send_message(token, payload) ==
    LET current == get_current_dispatcher(token)
        r == NotificationService_send_message(
                current.user, payload.recipient_id, payload.message,
                payload.shipment_id, MessageTypeOf(payload.message_type))
    IN  /\ Len(messages) < MaxMessages
        /\ IF current.code # 200
           THEN /\ resp' = HTTPException("send_message", current.code, current.detail)
                /\ UNCHANGED <<messages, sentCount>>
           ELSE /\ resp' = r.resp
                /\ messages' = r.messages
                /\ sentCount' = IF r.resp.code = 200
                                THEN [sentCount EXCEPT ![current.user] = @ + 1]
                                ELSE sentCount
        /\ UNCHANGED <<users, drivers, shipments, now, sess, commits>>

\* GET /api/dispatcher/messages/sent.
admin_sent_messages(token) ==
    LET current == get_current_dispatcher(token)
    IN  /\ resp' = IF current.code # 200
                   THEN HTTPException("sent_messages", current.code, current.detail)
                   ELSE Response("sent_messages", 200, "",
                                 Len(NotificationService_get_sent_messages(current.user)),
                                 NULL, "")
        /\ UNCHANGED <<users, drivers, shipments, messages, now, sentCount, sess, commits>>

\* ------------------------------------------------------------------ login
\* An authenticate_dispatcher that tells a missing user from a wrong password.
AuthService_authenticate_dispatcher_Enumerable(email, password) ==
    LET found == {u \in DOMAIN users : users[u].email = email}
        user == IF found = {} THEN NULL ELSE CHOOSE u \in found : TRUE
    IN  IF user = NULL
        THEN [code |-> 404, detail |-> "User not found", user |-> NULL,
              users |-> users]
        ELSE IF ~verify_password(password, users[user].password_hash)
        THEN [code |-> 401, detail |-> "Invalid credentials", user |-> NULL,
              users |-> users]
        ELSE IF users[user].role # "dispatcher"
        THEN [code |-> 403, detail |-> "Dispatcher access only", user |-> NULL,
              users |-> users]
        ELSE [code |-> 200, detail |-> "bearer", user |-> user,
              users |-> [users EXCEPT ![user].updated_at = now]]

\* AuthService.authenticate_dispatcher: [code, detail, user, users].
AuthService_authenticate_dispatcher(email, password) ==
    LET found == {u \in DOMAIN users : users[u].email = email}
        user == IF found = {} THEN NULL ELSE CHOOSE u \in found : TRUE
    IN  IF user = NULL \/ ~verify_password(password, users[user].password_hash)
        THEN [code |-> 401, detail |-> "Invalid credentials", user |-> NULL,
              users |-> users]
        ELSE IF users[user].role # "dispatcher"
        THEN [code |-> 403, detail |-> "Dispatcher access only", user |-> NULL,
              users |-> users]
        ELSE [code |-> 200, detail |-> "bearer", user |-> user,
              users |-> [users EXCEPT ![user].updated_at = now]]

\* POST /api/dispatcher/login of the admin service.
admin_login(email, password) ==
    LET r == AuthService_authenticate_dispatcher(email, password)
    IN  /\ users' = r.users
        /\ resp' = Response("login", r.code, r.detail, r.user, NULL, "")
        /\ UNCHANGED <<drivers, shipments, messages, now, sentCount, sess, commits>>

\* dispatcher_login of the driver service: [code, detail, user, users].
DispatcherLoginOutcome(email, password) ==
    LET found == {u \in DOMAIN users : users[u].email = email}
        user == IF found = {} THEN NULL ELSE CHOOSE u \in found : TRUE
    IN  IF user = NULL \/ ~verify_password(password, users[user].password_hash)
        THEN [code |-> 401, detail |-> "Invalid credentials", user |-> NULL,
              users |-> users]
        ELSE IF users[user].role # "dispatcher"
        THEN [code |-> 403, detail |-> "Dispatcher access only", user |-> NULL,
              users |-> users]
        ELSE [code |-> 200, detail |-> "bearer", user |-> user, users |-> users]

\* POST /api/dispatcher/login of the driver service.
driver_dispatcher_login(email, password) ==
    LET r == DispatcherLoginOutcome(email, password)
    IN  /\ users' = r.users
        /\ resp' = Response("login", r.code, r.detail, r.user, NULL, "")
        /\ UNCHANGED <<drivers, shipments, messages, now, sentCount, sess, commits>>

\* datetime.utcnow() advances.
Tick ==
    /\ now < MaxTime
    /\ now' = now + 1
    /\ UNCHANGED <<users, drivers, shipments, messages, resp, sentCount, sess, commits>>

\* ----------------------------------------------------------- specification
IdleSession ==
    [pc |-> "idle", shipment_id |-> NULL, driver_id |-> NULL,
     loaded |-> ShipmentRows[1], code |-> 0]

Init ==
    /\ users = UserRows
    /\ drivers = DriverRows
    /\ shipments = ShipmentRows
    /\ messages = <<>>
    /\ now = 0
    /\ resp = Response("none", 0, "", NULL, NULL, "")
    /\ sentCount = [u \in UserIds |-> 0]
    /\ sess = [w \in {"admin", "driver"} |-> IdleSession]
    /\ commits = <<>>

Next ==
    \/ \E c \in LoginRequests : driver_dispatcher_login(c.email, c.password)
    \/ \E s \in ShipmentIds \cup UnknownIds, d \in DriverIds \cup UnknownIds :
            driver_assign_driver(s, d)
    \/ \E s \in ShipmentIds \cup UnknownIds, st \in ShipmentStatus :
            driver_update_shipment_status(s, st)
    \/ driver_get_all_shipments
    \/ \E s \in ShipmentIds \cup UnknownIds : driver_get_shipment_detail(s)
    \/ driver_list_drivers
    \/ \E c \in LoginRequests : admin_login(c.email, c.password)
    \/ \E t \in Tokens, s \in ShipmentIds \cup UnknownIds, d \in DriverIds \cup UnknownIds :
            admin_assign_driver(t, s, d)
    \/ \E t \in Tokens, s \in ShipmentIds \cup UnknownIds, st \in ShipmentStatus :
            admin_update_status(t, s, st)
    \/ \E t \in Tokens, st \in ShipmentStatus \cup {""} : admin_list_shipments(t, st)
    \/ \E t \in Tokens, s \in ShipmentIds \cup UnknownIds : admin_shipment_detail(t, s)
    \/ \E t \in Tokens : admin_list_drivers(t)
    \/ \E t \in Tokens, p \in MessagePayloads : admin_send_message(t, p)
    \/ \E t \in Tokens : admin_sent_messages(t)

\* Every route of both services, at one instant of the clock.
Spec == Init /\ [][Next]_vars

\* The login routes, with the clock.
NextAuth ==
    \/ \E c \in LoginRequests : admin_login(c.email, c.password)
    \/ \E c \in LoginRequests : driver_dispatcher_login(c.email, c.password)
    \/ Tick

SpecAuth == Init /\ [][NextAuth]_vars

\* The messaging routes, with every payload.
NextLedger ==
    \/ \E t \in Tokens, p \in LedgerPayloads : admin_send_message(t, p)
    \/ \E t \in Tokens : admin_sent_messages(t)

SpecLedger == Init /\ [][NextLedger]_vars

\* ------------------------------------------------- two services, one row
\* The two services are two processes on one database (read committed): a
\* request of one runs its queries, and the other service may commit before
\* the first commits.  sess[w] is service w's assign_driver request: idle,
\* loaded (its queries ran, its session holds the row as it read it), done.
Services == {"admin", "driver"}

\* The queries of assign_driver and its two checks: the request ends with
\* 404, or the session holds the shipment row as the database has it now.
AssignLookup(w, shipment_id, driver_id) ==
    /\ sess[w].pc = "idle"
    /\ sess' = [sess EXCEPT ![w] =
            IF shipment_id \notin DOMAIN shipments \/ driver_id \notin DOMAIN drivers
            THEN [pc |-> "done", shipment_id |-> shipment_id, driver_id |-> driver_id,
                  loaded |-> @.loaded, code |-> 404]
            ELSE [pc |-> "loaded", shipment_id |-> shipment_id, driver_id |-> driver_id,
                  loaded |-> shipments[shipment_id], code |-> 0]]
    /\ UNCHANGED <<users, drivers, shipments, messages, now, resp, sentCount, commits>>

\* The two assignments and db.commit(): the columns the session changed are
\* written over the row as it is now, and the request answers 200.
AssignCommit(w) ==
    /\ sess[w].pc = "loaded"
    /\ shipments' = [shipments EXCEPT ![sess[w].shipment_id] =
            Flush(@, sess[w].loaded, AssignAttributes(sess[w].loaded, sess[w].driver_id))]
    /\ sess' = [sess EXCEPT ![w].pc = "done", ![w].code = 200]
    /\ commits' = Append(commits, w)
    /\ UNCHANGED <<users, drivers, messages, now, resp, sentCount>>

\* ShipmentService.assign_driver of the admin service, in its two steps.
admin_assign_lookup(shipment_id, driver_id) == AssignLookup("admin", shipment_id, driver_id)
admin_assign_commit == AssignCommit("admin")
\* assign_driver of the driver service, in its two steps.
driver_assign_lookup(shipment_id, driver_id) == AssignLookup("driver", shipment_id, driver_id)
driver_assign_commit == AssignCommit("driver")

\* Every row the routes of Spec can leave a shipment in: any driver link
\* with any status.
ShipmentRowsOf(s) ==
    {[ShipmentRows[s] EXCEPT !.driver_id = d, !.status = st] :
        d \in DriverIds \cup {NULL}, st \in ShipmentStatus}

InitRace ==
    /\ users = UserRows
    /\ drivers = DriverRows
    /\ shipments \in {[ShipmentRows EXCEPT ![1] = r] : r \in ShipmentRowsOf(1)}
    /\ messages = <<>>
    /\ now = 0
    /\ resp = Response("none", 0, "", NULL, NULL, "")
    /\ sentCount = [u \in UserIds |-> 0]
    /\ sess = [w \in Services |-> IdleSession]
    /\ commits = <<>>

NextRace ==
    \/ \E s \in ShipmentIds \cup UnknownIds, d \in DriverIds \cup UnknownIds :
            admin_assign_lookup(s, d)
    \/ admin_assign_commit
    \/ \E s \in ShipmentIds \cup UnknownIds, d \in DriverIds \cup UnknownIds :
            driver_assign_lookup(s, d)
    \/ driver_assign_commit

SpecRace == InitRace /\ [][NextRace]_vars

\* ------------------------------------------------------------------ claims
\* The tokens that resolve to a user whose role is dispatcher.
DispatcherTokens ==
    {t \in Tokens : get_current_user(t) # NULL
                        /\ users[get_current_user(t)].role = "dispatcher"}
\* The states "ASSIGNED or later" of the lifecycle.
AssignedOrLater == {"ASSIGNED", "IN_TRANSIT", "DELIVERED"}

\* C1: every shipment whose status is ASSIGNED, IN_TRANSIT or DELIVERED has a
\* non-null driver_id that refers to an existing driver.
C1_AssignedOrLaterHasDriver ==
    \A s \in DOMAIN shipments :
        shipments[s].status \in AssignedOrLater =>
            /\ shipments[s].driver_id # NULL
            /\ shipments[s].driver_id \in DOMAIN drivers

\* C2: assign_driver on an existing shipment and an existing driver succeeds
\* from every prior status and driver, leaves the shipment ASSIGNED to that
\* driver and every other column and row as it was, and a second call with the
\* same arguments changes nothing more; the row a successful assign response
\* names is ASSIGNED to the driver it names.  Both services.
C2_AssignSetsDriverIdempotently ==
    /\ \A s \in DOMAIN shipments, d \in DOMAIN drivers :
        LET want == [shipments EXCEPT ![s].driver_id = d, ![s].status = "ASSIGNED"]
            a1 == ShipmentService_assign_driver(shipments, s, d)
            a2 == ShipmentService_assign_driver(a1.shipments, s, d)
            d1 == DriverService_assign_driver(shipments, s, d)
            d2 == DriverService_assign_driver(d1.shipments, s, d)
        IN  /\ a1.resp.code = 200 /\ a1.shipments = want
            /\ a2.resp.code = 200 /\ a2.shipments = a1.shipments
            /\ d1.resp.code = 200 /\ d1.shipments = want
            /\ d2.resp.code = 200 /\ d2.shipments = d1.shipments
    /\ (resp.op = "assign_driver" /\ resp.code = 200) =>
        /\ resp.id \in DOMAIN shipments /\ resp.driver \in DOMAIN drivers
        /\ shipments[resp.id].status = "ASSIGNED"
        /\ shipments[resp.id].driver_id = resp.driver
        /\ resp.status = "ASSIGNED"

\* A shipment re-assigned: the last request assigned driver 2 to a shipment,
\* and the other shipment was assigned before and has moved on.
C2_Witness ==
    /\ resp.op = "assign_driver" /\ resp.code = 200 /\ resp.driver = 2
    /\ shipments[resp.id].driver_id = 2
    /\ \E o \in DOMAIN shipments \ {resp.id} :
        shipments[o].driver_id = 1 /\ shipments[o].status = "DELIVERED"

\* C3: a command that names an absent entity answers 404 and changes no row.
\* In every state, assign_driver with an unknown shipment, assign_driver with
\* an unknown driver, update_status with an unknown shipment and send_message
\* with an unknown recipient answer 404 with their detail and hand back the
\* table they were given; and every step whose response is a 404 leaves users,
\* drivers, shipments and messages as they were.
C3_NotFoundLeavesStorage ==
    /\ [](\A s \in UnknownIds, e \in ShipmentIds, u \in UnknownIds :
            /\ \A d \in DriverIds \cup UnknownIds :
                /\ ShipmentService_assign_driver(shipments, s, d) =
                    [resp |-> HTTPException("assign_driver", 404, "Shipment not found"),
                     shipments |-> shipments]
                /\ DriverService_assign_driver(shipments, s, d) =
                    [resp |-> HTTPException("assign_driver", 404, "Shipment not found"),
                     shipments |-> shipments]
            /\ ShipmentService_assign_driver(shipments, e, u) =
                [resp |-> HTTPException("assign_driver", 404, "Driver not found"),
                 shipments |-> shipments]
            /\ DriverService_assign_driver(shipments, e, u) =
                [resp |-> HTTPException("assign_driver", 404, "Driver not found"),
                 shipments |-> shipments]
            /\ \A st \in ShipmentStatus :
                /\ ShipmentService_update_status(shipments, s, st) =
                    [resp |-> HTTPException("update_status", 404, "Shipment not found"),
                     shipments |-> shipments]
                /\ DriverService_update_shipment_status(shipments, s, st) =
                    [resp |-> HTTPException("update_status", 404, "Shipment not found"),
                     shipments |-> shipments]
            /\ \A sender \in UserIds, p \in LedgerPayloads :
                NotificationService_send_message(
                    sender, u, p.message, p.shipment_id, MessageTypeOf(p.message_type)) =
                    [resp |-> HTTPException("send_message", 404, "Recipient not found"),
                     messages |-> messages])
    /\ [][resp'.code = 404 => UNCHANGED storage]_vars

\* An assign_driver for an existing shipment was refused for its driver, with
\* a shipment already assigned and a message already in the ledger.
C3_Witness ==
    /\ resp.op = "assign_driver" /\ resp.code = 404
    /\ resp.detail = "Driver not found"
    /\ \E s \in DOMAIN shipments : shipments[s].driver_id # NULL
    /\ Len(messages) > 0

\* C4: the ledger only grows, one row per successful send, and each sender's
\* list is exactly its own rows.  In every state get_sent_messages(u) has as
\* many rows as u has sent, the ids of the rows whose sender_id is u and no
\* other, and row i has id i; every step keeps the rows there were, a
\* successful send adds one row whose sender_id is the principal that sent
\* it, and no other step adds any.
C4_LedgerAppendOnlyAndCounted ==
    /\ [](/\ \A i \in 1..Len(messages) : messages[i].id = i
          /\ \A u \in UserIds :
                LET sent == NotificationService_get_sent_messages(u)
                IN  /\ Len(sent) = sentCount[u]
                    /\ {sent[i].id : i \in 1..Len(sent)} =
                        {messages[j].id : j \in {k \in 1..Len(messages) :
                                                    messages[k].sender_id = u}}
                    /\ \A i \in 1..Len(sent) : messages[sent[i].id].sender_id = u)
    /\ [][ /\ Len(messages') >= Len(messages)
           /\ SubSeq(messages', 1, Len(messages)) = messages
           /\ IF resp'.op = "send_message" /\ resp'.code = 200
              THEN /\ Len(messages') = Len(messages) + 1
                   /\ \E u \in UserIds :
                        /\ sentCount' = [sentCount EXCEPT ![u] = @ + 1]
                        /\ messages'[Len(messages')].sender_id = u
              ELSE messages' = messages /\ sentCount' = sentCount
         ]_vars

\* Both dispatchers have sent one message each, and the last request listed
\* the one row its dispatcher sent.
C4_Witness ==
    /\ Len(messages) = 2
    /\ sentCount[1] = 1 /\ sentCount[2] = 1
    /\ resp.op = "sent_messages" /\ resp.code = 200 /\ resp.id = 1

\* C5: a wrong password for an existing email (of any role) and an email no
\* user has give the same outcome: 401 "Invalid credentials", no user, and the
\* users table as it was.  Both login routes; every login response with
\* status 401 is that one response, and the step that gives it changes no
\* table.
C5_LoginEnumerationSafe ==
    /\ [](\A a \in LoginRequests, b \in LoginRequests :
        LET KnownEmail(c) == \E u \in DOMAIN users : users[u].email = c.email
            WrongPassword(c) ==
                \E u \in DOMAIN users :
                    /\ users[u].email = c.email
                    /\ ~verify_password(c.password, users[u].password_hash)
            fail == [code |-> 401, detail |-> "Invalid credentials",
                     user |-> NULL, users |-> users]
        IN  (KnownEmail(a) /\ WrongPassword(a) /\ ~KnownEmail(b)) =>
                /\ AuthService_authenticate_dispatcher(a.email, a.password) = fail
                /\ AuthService_authenticate_dispatcher(b.email, b.password) = fail
                /\ DispatcherLoginOutcome(a.email, a.password) = fail
                /\ DispatcherLoginOutcome(b.email, b.password) = fail)
    /\ []((resp.op = "login" /\ resp.code \notin {200, 403}) =>
            resp = HTTPException("login", 401, "Invalid credentials"))
    /\ [][(resp'.op = "login" /\ resp'.code = 401) => UNCHANGED storage]_vars

\* A login was refused with 401 after a dispatcher had logged in.
C5_Witness ==
    /\ resp.op = "login" /\ resp.code = 401
    /\ \E u \in DOMAIN users : users[u].updated_at > 0

\* C6: no route of either service runs for a request whose token does not
\* resolve to a dispatcher: such a request is answered 401 or 403 (403 when
\* the token resolves to a user of another role) and changes no shipment and
\* no message.  The driver service's handlers take no token: a request runs
\* them whatever token it carries.
C6_EveryRouteRequiresDispatcher ==
    [][ \A t \in Tokens \ DispatcherTokens :
            LET refused ==
                    /\ resp'.code = IF get_current_user(t) = NULL THEN 401 ELSE 403
                    /\ UNCHANGED <<shipments, messages>>
            IN  /\ \A s \in ShipmentIds \cup UnknownIds, d \in DriverIds \cup UnknownIds :
                    (admin_assign_driver(t, s, d) \/ driver_assign_driver(s, d)) => refused
                /\ \A s \in ShipmentIds \cup UnknownIds, st \in ShipmentStatus :
                    (admin_update_status(t, s, st) \/ driver_update_shipment_status(s, st))
                        => refused
                /\ \A st \in ShipmentStatus \cup {""} :
                    (admin_list_shipments(t, st) \/ driver_get_all_shipments) => refused
                /\ \A s \in ShipmentIds \cup UnknownIds :
                    (admin_shipment_detail(t, s) \/ driver_get_shipment_detail(s)) => refused
                /\ (admin_list_drivers(t) \/ driver_list_drivers) => refused
                /\ \A p \in LedgerPayloads : admin_send_message(t, p) => refused
                /\ admin_sent_messages(t) => refused
      ]_vars

\* C7: update_status on an existing shipment succeeds from every status to
\* every status and sets the status alone.  In every state both services'
\* update_status answer 200 and hand back the table with that one status
\* changed, and after assign_driver(s, d) an update_status(s, IN_TRANSIT)
\* leaves s IN_TRANSIT with driver d; every step that answers an update_status
\* with 200 changes that shipment's status to the status asked for and no
\* other column, row or table.
C7_UpdateStatusSetsStatusOnly ==
    /\ [](\A s \in DOMAIN shipments :
            /\ \A st \in ShipmentStatus :
                LET want == [shipments EXCEPT ![s].status = st]
                    a == ShipmentService_update_status(shipments, s, st)
                    b == DriverService_update_shipment_status(shipments, s, st)
                IN  /\ a.resp.code = 200 /\ a.shipments = want
                    /\ b.resp.code = 200 /\ b.shipments = want
            /\ \A d \in DOMAIN drivers :
                LET a == ShipmentService_assign_driver(shipments, s, d)
                    u == ShipmentService_update_status(a.shipments, s, "IN_TRANSIT")
                IN  /\ u.resp.code = 200
                    /\ u.shipments[s] =
                        [shipments[s] EXCEPT !.driver_id = d, !.status = "IN_TRANSIT"])
    /\ [][(resp'.op = "update_status" /\ resp'.code = 200) =>
            /\ resp'.id \in DOMAIN shipments
            /\ shipments' = [shipments EXCEPT ![resp'.id].status = resp'.status]
            /\ UNCHANGED <<users, drivers, messages>>
         ]_vars

\* An assigned shipment was moved to IN_TRANSIT and kept its driver, and the
\* other shipment has gone from a later state back to PENDING with its driver.
C7_Witness ==
    /\ resp.op = "update_status" /\ resp.code = 200 /\ resp.status = "IN_TRANSIT"
    /\ shipments[resp.id].status = "IN_TRANSIT"
    /\ shipments[resp.id].driver_id # NULL
    /\ \E o \in DOMAIN shipments \ {resp.id} :
        shipments[o].status = "PENDING" /\ shipments[o].driver_id # NULL

\* C8: every row of the ledger has a sender_id that is the id of a user whose
\* role is dispatcher.
C8_SenderIsDispatcher ==
    \A i \in 1..Len(messages) :
        /\ messages[i].sender_id \in DOMAIN users
        /\ users[messages[i].sender_id].role = "dispatcher"

\* A message to the driver's user was sent by the second dispatcher.
C8_Witness ==
    /\ resp.op = "send_message" /\ resp.code = 200
    /\ messages[Len(messages)].sender_id = 2
    /\ messages[Len(messages)].recipient_id = 3

\* C9: a login that answers 200 has set that user's updated_at to the current
\* time and nothing else, and a login that is refused changes no user; no
\* login changes another table.  Both login routes.
C9_LoginRefreshesUpdatedAt ==
    [][ \A c \in LoginRequests :
            (admin_login(c.email, c.password) \/ driver_dispatcher_login(c.email, c.password))
                => /\ IF resp'.code = 200
                      THEN users' = [users EXCEPT ![resp'.id].updated_at = now]
                      ELSE users' = users
                   /\ UNCHANGED <<drivers, shipments, messages>>
      ]_vars

\* ---- C10, under SpecRace
\* The two requests have ended, both for the same existing shipment, with two
\* different existing drivers.
RaceEnded ==
    /\ \A w \in Services : sess[w].pc = "done"
    /\ sess["admin"].shipment_id = sess["driver"].shipment_id
    /\ sess["admin"].shipment_id \in DOMAIN shipments
    /\ sess["admin"].driver_id \in DOMAIN drivers
    /\ sess["driver"].driver_id \in DOMAIN drivers
    /\ sess["admin"].driver_id # sess["driver"].driver_id

LastCommitter == commits[Len(commits)]
OtherService(w) == CHOOSE o \in Services : o # w

\* C10 as stated: both calls succeed and the shipment ends ASSIGNED to the
\* driver of the call that committed last.
C10_LastCommitterWins ==
    RaceEnded =>
        /\ \A w \in Services : sess[w].code = 200
        /\ Len(commits) = 2
        /\ shipments[sess["admin"].shipment_id].status = "ASSIGNED"
        /\ shipments[sess["admin"].shipment_id].driver_id = sess[LastCommitter].driver_id

\* C10 as amended: a request whose queries have run can always commit; both
\* calls succeed and the shipment ends ASSIGNED to the driver of one of them:
\* of the call that committed last when the driver_id that call read differs
\* from its own driver, and of the other call when the last committer read its
\* own driver as the shipment's driver_id (its commit writes no driver_id).
C10_LastDriverWriteWins ==
    /\ \A w \in Services : sess[w].pc = "loaded" => ENABLED AssignCommit(w)
    /\ RaceEnded =>
        LET s == sess["admin"].shipment_id
            last == sess[LastCommitter]
            other == sess[OtherService(LastCommitter)]
        IN  /\ \A w \in Services : sess[w].code = 200
            /\ Len(commits) = 2
            /\ shipments[s].status = "ASSIGNED"
            /\ shipments[s].driver_id \in {last.driver_id, other.driver_id}
            /\ shipments[s].driver_id =
                IF last.loaded.driver_id # last.driver_id
                THEN last.driver_id ELSE other.driver_id

\* Both calls have ended and the shipment has the driver of the call that
\* committed first: the last committer had read its own driver.
C10_Witness ==
    /\ RaceEnded
    /\ sess[LastCommitter].loaded.driver_id = sess[LastCommitter].driver_id
    /\ shipments[sess["admin"].shipment_id].driver_id =
            sess[OtherService(LastCommitter)].driver_id

\* C11: the two services implement the same assignment and status engine.  In
\* every storage state and for every input (shipment_id, driver_id) or
\* (shipment_id, status), known or unknown, ShipmentService.assign_driver /
\* update_status of the admin service and assign_driver /
\* update_shipment_status of the driver service give the same outcome kind
\* (200, or 404 with the same detail), the same status and driver in the
\* response and the same resulting shipments table; when both the shipment
\* and the driver are unknown both answer "Shipment not found".  Every step
\* that answers 200 to either command leaves the table that both services
\* compute for the shipment and the driver or status the response names.
C11_ServicesImplementSameEngine ==
    /\ [](\A s \in DOMAIN shipments \cup UnknownIds :
            /\ \A d \in DOMAIN drivers \cup UnknownIds :
                LET a == ShipmentService_assign_driver(shipments, s, d)
                    b == DriverService_assign_driver(shipments, s, d)
                IN  /\ a.resp.code = b.resp.code
                    /\ a.resp.code \in {200, 404}
                    /\ a.resp.code = 404 => a.resp.detail = b.resp.detail
                    /\ a.resp.status = b.resp.status
                    /\ a.resp.driver = b.resp.driver
                    /\ a.shipments = b.shipments
                    /\ (s \in UnknownIds /\ d \in UnknownIds) =>
                        /\ a.resp.detail = "Shipment not found"
                        /\ b.resp.detail = "Shipment not found"
            /\ \A st \in ShipmentStatus :
                LET a == ShipmentService_update_status(shipments, s, st)
                    b == DriverService_update_shipment_status(shipments, s, st)
                IN  /\ a.resp.code = b.resp.code
                    /\ a.resp.code \in {200, 404}
                    /\ a.resp.code = 404 => a.resp.detail = b.resp.detail
                    /\ a.resp.status = b.resp.status
                    /\ a.shipments = b.shipments)
    /\ [][/\ (resp'.op = "assign_driver" /\ resp'.code = 200) =>
                /\ shipments' = ShipmentService_assign_driver(
                                    shipments, resp'.id, resp'.driver).shipments
                /\ shipments' = DriverService_assign_driver(
                                    shipments, resp'.id, resp'.driver).shipments
          /\ (resp'.op = "update_status" /\ resp'.code = 200) =>
                /\ shipments' = ShipmentService_update_status(
                                    shipments, resp'.id, resp'.status).shipments
                /\ shipments' = DriverService_update_shipment_status(
                                    shipments, resp'.id, resp'.status).shipments
         ]_vars

\* An assignment was answered "Shipment not found" in a storage state that
\* earlier commands have changed (one shipment reassigned and in transit, the
\* other delivered without a driver), and in that state both services answer
\* the request naming an unknown shipment and an unknown driver that way.
C11_Witness ==
    /\ resp.op = "assign_driver" /\ resp.code = 404
    /\ resp.detail = "Shipment not found"
    /\ \E s \in DOMAIN shipments :
        /\ shipments[s].status = "IN_TRANSIT" /\ shipments[s].driver_id # NULL
        /\ \E o \in DOMAIN shipments \ {s} :
            shipments[o].status = "DELIVERED" /\ shipments[o].driver_id = NULL
    /\ \A s \in UnknownIds, d \in UnknownIds :
        /\ ShipmentService_assign_driver(shipments, s, d).resp.detail
                = "Shipment not found"
        /\ DriverService_assign_driver(shipments, s, d).resp.detail
                = "Shipment not found"
====
